---- MODULE Spec2Model ----
(***************************************************************************)
(* A model of the tk-clarisse engine (src/engine.py): the scene-event      *)
(* watcher that monkey-patches the host's entry points, the context        *)
(* refresh it triggers, and the engine life cycle around them; and of the  *)
(* UI pump that runs the toolkit's event loop on the host's idle ticks     *)
(* (src/python/tk_clarisse/pyside_clarisse.py).                            *)
(*                                                                         *)
(* A host entry point holds a function value.  A function value is the     *)
(* sequence of wrapper layers around the host's original function, the     *)
(* outermost layer first: <<>> is the original itself, and Tail(f) is the  *)
(* `_original` attribute of the wrapper f.                                 *)
(*                                                                         *)
(* The methods of the program are operators from a program state (a        *)
(* record, see S) to the program state they leave; an exception in flight  *)
(* is the field exc.  An action runs one whole call and commits its        *)
(* result.                                                                 *)
(***************************************************************************)
EXTENDS Integers, Sequences, FiniteSets, TLC

VARIABLES
    exposed,         \* the entry-point names the host's ix.application exposes
    gui,             \* ix.is_gui_application()
    settings,        \* the engine's configuration settings
    app,             \* ix.application: entry-point name -> function value
    scene,           \* ix.application.get_current_project_filename()
    alive,           \* the host process has not exited
    watchers,        \* the SceneEventWatcher objects
    fired,           \* watchers whose user callback ran since they last started
    engine,          \* tank.platform.current_engine()
    mainMenu,        \* items of ix.application.get_main_menu()
    menu_callbacks,  \* keys of ix.shotgun.menu_callbacks
    environ,         \* the names set in os.environ
    qapp,            \* the toolkit's QApplication
    visible,         \* some top-level toolkit window is visible
    helper,          \* the class attribute PySideAppClarisseHelper._helper
    pumps,           \* the PySideAppClarisseHelper objects
    idle,            \* callbacks pending for the host's next idle tick
    deferred,        \* command functions handed over for deferred execution
    lastOp           \* the last operation: its inputs and what it did, in order

vars == <<exposed, gui, settings, app, scene, alive, watchers, fired, engine,
          mainMenu, menu_callbacks, environ, qapp, visible, helper, pumps,
          idle, deferred, lastOp>>

----------------------------------------------------------------------------
(* Bounds of the model *)

\* number of SceneEventWatcher objects that can be alive at once
MaxWatchers == 3

Watchers == 1..MaxWatchers

\* number of PySideAppClarisseHelper objects that can be created
MaxPumps == 2

Pumps == 1..MaxPumps

\* number of entries of the run_at_startup setting
MaxStartup == 2

\* number of dialogs an engine is asked to show
MaxDialogs == 2

\* number of wrappers stacked on one entry point
MaxLayers == 3

----------------------------------------------------------------------------
(* Constants of the program *)

SCENE_EVENT_NAMES ==
    <<"new_project", "clear_project", "import_project", "load_project",
      "save_project", "load_startup_scene">>

SCENE_QUIT_EVENT_NAME == "quit"

SceneNames == {SCENE_EVENT_NAMES[i] : i \in 1..Len(SCENE_EVENT_NAMES)}

Names == SceneNames \cup {SCENE_QUIT_EVENT_NAME}

----------------------------------------------------------------------------
(* Values *)

\* contexts of the pipeline framework: a project, or an entity of a project
Projects == {"p1"}
Entities == {"none", "shotA"}
Contexts == [project : Projects, entity : Entities]
NoCtx == [project |-> "", entity |-> ""]

MenuNames == {"Shotgun", "Sgtk"}

\* the outcome of a call into the pipeline framework
Ok(c) == [err |-> "none", ctx |-> c]
Err(e) == [err |-> e, ctx |-> NoCtx]
NoOutcome == Err("unused")

\* a callback given to a watcher: the user's own, or the engine's partial of
\* on_scene_event_callback with its previous context and menu name baked in
UserCb == [kind |-> "user", prev_context |-> NoCtx, menu_name |-> ""]
EngineCb(ctx, menu) == [kind |-> "engine", prev_context |-> ctx, menu_name |-> menu]

\* the table self.__wrapped_fns: its keys, and the wrapper stored under each
EmptyTable == [keys |-> {}, fn |-> [n \in Names |-> <<>>]]

NoWatcher ==
    [held |-> FALSE, cb |-> UserCb, run_once |-> FALSE, wrapped_fns |-> EmptyTable]

\* the engine object; qt_dialogs is the length of its list __qt_dialogs
NoEngine ==
    [running |-> FALSE, context |-> NoCtx, menu_name |-> "", watcher |-> 0,
     qt_dialogs |-> 0]

\* one step of an operation, as the log records it
Entry(ev, w, info) == [ev |-> ev, w |-> w, info |-> info]

NoInput ==
    [scene |-> "", res |-> NoOutcome, fb |-> "unused", cc |-> "ok",
     raises |-> FALSE, exits |-> FALSE, reenters |-> FALSE]

\* a PySideAppClarisseHelper object: made says it was constructed, own_helper
\* whether the object has an attribute _helper of its own ("None") or reads
\* the class attribute ("unset")
NoPump == [made |-> FALSE, own_helper |-> "unset"]

\* the names init_engine sets in os.environ
DIALOG_SHOWN == "SGTK_COMPATIBILITY_DIALOG_SHOWN"
SKIP_IMPORT == "SHOTGUN_SKIP_QTWEBENGINEWIDGETS_IMPORT"

\* engine.commands: each command name with the instance name of the app in
\* its properties, "" for a command registered without an app
commands ==
    [c \in {"cmd0", "cmd1", "cmd2", "cmd3"} |->
        CASE c = "cmd0" -> ""
          [] c \in {"cmd1", "cmd2"} -> "A"
          [] OTHER -> "B"]

\* an entry of the run_at_startup setting
StartupEntry(app_instance, name) == [app_instance |-> app_instance, name |-> name]

----------------------------------------------------------------------------
(* The program state the operators work on *)

S ==
    [app |-> app, scene |-> scene, alive |-> alive, watchers |-> watchers,
     fired |-> fired, engine |-> engine, mainMenu |-> mainMenu,
     menu_callbacks |-> menu_callbacks, environ |-> environ, qapp |-> qapp,
     visible |-> visible, helper |-> helper, pumps |-> pumps, idle |-> idle,
     deferred |-> deferred, log |-> <<>>, exc |-> "none", ret |-> "none"]

Log(st, ev, w, info) == [st EXCEPT !.log = Append(@, Entry(ev, w, info))]

Raise(st, e) == [st EXCEPT !.exc = e]

\* w has a wrapper installed on some entry point, or still records one
Installed(st, w) ==
    \E n \in exposed : \E i \in 1..Len(st.app[n]) : st.app[n][i].watcher = w

IsPatched(st, w) ==
    \/ st.watchers[w].wrapped_fns.keys # {}
    \/ Installed(st, w)

PatchInfo(st, w) == IF IsPatched(st, w) THEN "patched" ELSE "stopped"

\* a watcher object nobody holds or can reach any more
Free(st, w) == ~st.watchers[w].held /\ ~IsPatched(st, w)

FreshWatcher(st) == CHOOSE w \in Watchers : Free(st, w)

----------------------------------------------------------------------------
(* wrapped() and the SceneEventWatcher *)

\* wrapped(function, watcher, post_callback=..., pre_callback=...): the new
\* wrapper, whose _original is function.  kind says which callback it got.
wrapped(function, watcher, kind) ==
    <<[watcher |-> watcher, kind |-> kind]>> \o function

\* a stop_watching that restores the entry points and keeps its table
stop_watching_keeps(st, w) ==
    LET t == st.watchers[w].wrapped_fns
        s1 == [st EXCEPT
                 !.app = [n \in Names |->
                            IF n \in t.keys THEN Tail(t.fn[n]) ELSE st.app[n]]]
    IN Log(s1, "stop_watching", w, IF t.keys = {} THEN "clean" ELSE "restored")

\* stop_watching: setattr(ix.application, event_name, event_fn._original) for
\* every entry of the table, then the table is emptied
stop_watching(st, w) ==
    LET t == st.watchers[w].wrapped_fns
        s1 == [st EXCEPT
                 !.app = [n \in Names |->
                            IF n \in t.keys THEN Tail(t.fn[n]) ELSE st.app[n]],
                 !.watchers[w].wrapped_fns = EmptyTable]
    IN Log(s1, "stop_watching", w, IF t.keys = {} THEN "clean" ELSE "restored")

\* one turn of start_watching's loop: getattr raises when the host lacks the
\* entry point; the except clause swallows that and the loop goes on
register_scene_event(st, w, event_name) ==
    IF event_name \notin exposed
    THEN st
    ELSE LET event_fn == wrapped(st.app[event_name], w, "post")
         IN [st EXCEPT
               !.watchers[w].wrapped_fns.keys = @ \cup {event_name},
               !.watchers[w].wrapped_fns.fn[event_name] = event_fn,
               !.app[event_name] = event_fn]

RECURSIVE register_scene_events(_, _, _)
register_scene_events(st, w, i) ==
    IF i > Len(SCENE_EVENT_NAMES)
    THEN st
    ELSE register_scene_events(
             register_scene_event(st, w, SCENE_EVENT_NAMES[i]), w, i + 1)

\* the quit registration is outside any try: a missing quit raises
register_quit_event(st, w) ==
    IF SCENE_QUIT_EVENT_NAME \notin exposed
    THEN Raise(st, "AttributeError")
    ELSE LET event_fn == wrapped(st.app[SCENE_QUIT_EVENT_NAME], w, "pre")
         IN [st EXCEPT
               !.watchers[w].wrapped_fns.keys = @ \cup {SCENE_QUIT_EVENT_NAME},
               !.watchers[w].wrapped_fns.fn[SCENE_QUIT_EVENT_NAME] = event_fn,
               !.app[SCENE_QUIT_EVENT_NAME] = event_fn]

\* a start_watching that does not stop first
start_watching_nostop(st, w) ==
    register_quit_event(register_scene_events(st, w, 1), w)

start_watching(st, w) ==
    LET s1 == stop_watching(st, w)
        s2 == register_scene_events(s1, w, 1)
    IN register_quit_event(s2, w)

\* SceneEventWatcher(cb_fn, run_once): the caller gets the object only if
\* the constructor returns
SceneEventWatcher(st, w, cb_fn, run_once) ==
    LET s0 == [st EXCEPT
                 !.watchers[w] = [held |-> FALSE, cb |-> cb_fn,
                                  run_once |-> run_once,
                                  wrapped_fns |-> EmptyTable],
                 !.fired = @ \ {w}]
        s1 == start_watching(s0, w)
    IN [s1 EXCEPT !.watchers[w].held = (s1.exc = "none")]

----------------------------------------------------------------------------
(* The host's menu *)

Item(menu_name, item, ctx) == [menu |-> menu_name, item |-> item, ctx |-> ctx]

DisabledItem(menu_name) == Item(menu_name, "Sgtk is disabled.", NoCtx)

\* get_sgtk_root_menu: the root item of the menu, added when missing
get_sgtk_root_menu(st, menu_name) ==
    [st EXCEPT !.mainMenu = @ \cup {Item(menu_name, "root", NoCtx)}]

\* a clear_sgtk_menu that empties the callback table and leaves the commands
clear_sgtk_menu_keeps(st, menu_name) ==
    IF ~gui
    THEN st
    ELSE [get_sgtk_root_menu(st, menu_name) EXCEPT !.menu_callbacks = {}]

\* clear_sgtk_menu: nothing in batch mode; otherwise every command below the
\* root goes, and the callback table is replaced by an empty one
clear_sgtk_menu(st, menu_name) ==
    IF ~gui
    THEN st
    ELSE LET s1 == get_sgtk_root_menu(st, menu_name)
         IN [s1 EXCEPT
               !.mainMenu = {m \in @ : m.menu # menu_name \/ m.item = "root"},
               !.menu_callbacks = {}]

\* create_sgtk_disabled_menu: nothing in batch mode; otherwise the
\* placeholder is added below the root, beside whatever is there
create_sgtk_disabled_menu(st, menu_name) ==
    IF ~gui
    THEN st
    ELSE LET s1 == get_sgtk_root_menu(st, menu_name)
             s2 == [s1 EXCEPT
                      !.menu_callbacks = @ \cup {DisabledItem(menu_name)},
                      !.mainMenu = @ \cup {DisabledItem(menu_name)}]
         IN Log(s2, "create_sgtk_disabled_menu", 0, menu_name)

remove_sgtk_disabled_menu(st, menu_name) ==
    clear_sgtk_menu(
        Log(st, "remove_sgtk_disabled_menu", 0,
            IF DisabledItem(menu_name) \in st.mainMenu
            THEN "placeholder" ELSE "none"),
        menu_name)

\* a has_ui that takes every host for a GUI application
has_ui_always == TRUE

\* ClarisseEngine.has_ui
has_ui == gui

\* tk_clarisse.MenuGenerator.create_menu: the engine's commands for its
\* current context are (re)built below the root
MenuGenerator_create_menu(st) ==
    LET name == st.engine.menu_name
        cmds == Item(name, "commands", st.engine.context)
    IN [st EXCEPT
          !.mainMenu = {m \in @ : m.menu # name \/ m.item # "commands"}
                         \cup {cmds},
          !.menu_callbacks = {m \in @ : m.menu # name \/ m.item # "commands"}
                               \cup {cmds}]

\* ClarisseEngine.create_shotgun_menu
create_shotgun_menu(st) ==
    IF has_ui
    THEN MenuGenerator_create_menu(
             get_sgtk_root_menu(
                 Log(st, "create_shotgun_menu", 0, st.engine.menu_name),
                 st.engine.menu_name))
    ELSE st

----------------------------------------------------------------------------
(* Context changes *)

\* a post_context_change whose new callback carries the old context
post_context_change_stale(st, old_context, new_context) ==
    LET s0 == Log(st, "post_context_change", 0, "")
    IN IF ~settings.automatic_context_switch
       THEN s0
       ELSE IF s0.engine.watcher = 0
       THEN Raise(s0, "AttributeError")
       ELSE LET old == s0.engine.watcher
                s1 == stop_watching(s0, old)
                new == FreshWatcher(s1)
                s2 == SceneEventWatcher(
                          s1, new,
                          EngineCb(old_context, s1.engine.menu_name),
                          FALSE)
                s3 == [s2 EXCEPT !.engine.watcher = new,
                                 !.watchers[old].held = FALSE]
            IN IF s2.exc # "none"
               THEN s2
               ELSE IF old_context # new_context
               THEN create_shotgun_menu(s3)
               ELSE s3

\* ClarisseEngine.post_context_change(old_context, new_context)
post_context_change(st, old_context, new_context) ==
    LET s0 == Log(st, "post_context_change", 0, "")
    IN IF ~settings.automatic_context_switch
       THEN s0
       ELSE IF s0.engine.watcher = 0
       THEN Raise(s0, "AttributeError")
       ELSE LET old == s0.engine.watcher
                s1 == stop_watching(s0, old)
                new == FreshWatcher(s1)
                s2 == SceneEventWatcher(
                          s1, new,
                          EngineCb(s1.engine.context, s1.engine.menu_name),
                          FALSE)
                s3 == [s2 EXCEPT !.engine.watcher = new,
                                 !.watchers[old].held = FALSE]
            IN IF s2.exc # "none"
               THEN s2
               ELSE IF old_context # new_context
               THEN create_shotgun_menu(s3)
               ELSE s3

\* Engine.change_context of the framework, as this engine takes part in it:
\* the change is allowed (context_change_allowed), the framework either
\* refuses it (cc names its exception) or sets the context and then runs
\* post_context_change
change_context(st, new_context, cc) ==
    LET s0 == Log(st, "change_context", 0, cc)
    IN IF cc # "ok"
       THEN Raise(s0, cc)
       ELSE LET old_context == s0.engine.context
            IN post_context_change(
                   [s0 EXCEPT !.engine.context = new_context],
                   old_context, new_context)

----------------------------------------------------------------------------
(* The context refresh *)

\* context_from_entity_dictionary(current_engine.context.project)
ProjectContext(ctx) == [project |-> ctx.project, entity |-> "none"]

\* a refresh that changes to the resolved context without comparing it
refresh_resolved_always(st, ctx, menu_name, in) ==
    change_context(
        create_shotgun_menu(remove_sgtk_disabled_menu(st, menu_name)),
        ctx, in.cc)

\* refresh_engine, from line 274 on: a context ctx was resolved
refresh_resolved(st, ctx, menu_name, in) ==
    LET s1 == remove_sgtk_disabled_menu(st, menu_name)
        s2 == create_shotgun_menu(s1)
    IN IF ctx # s2.engine.context
       THEN change_context(s2, ctx, in.cc)
       ELSE s2

\* a fallback whose handler takes every exception for an unresolvable path
refresh_fallback_any(st, menu_name, in) ==
    LET s1 == Log(st, "context_from_entity_dictionary", 0, in.fb)
    IN IF in.fb = "none"
       THEN refresh_resolved(s1, ProjectContext(s1.engine.context),
                             menu_name, in)
       ELSE Log(create_sgtk_disabled_menu(s1, menu_name),
                "display_error", 0, "")

\* a fallback that ensures the menu and keeps the engine's context
refresh_fallback_keeps(st, menu_name, in) ==
    LET s1 == Log(st, "context_from_entity_dictionary", 0, in.fb)
    IN CASE in.fb = "none" ->
              create_shotgun_menu(remove_sgtk_disabled_menu(s1, menu_name))
         [] in.fb = "TankError" ->
              Log(create_sgtk_disabled_menu(s1, menu_name),
                  "display_error", 0, "")
         [] OTHER -> Raise(s1, in.fb)

\* refresh_engine, the handler of tank.TankError of the path resolution:
\* the fallback on the engine's project, and the disabled menu when that
\* raises tank.TankError too.  Any other exception leaves refresh_engine.
refresh_fallback(st, menu_name, in) ==
    LET s1 == Log(st, "context_from_entity_dictionary", 0, in.fb)
    IN CASE in.fb = "none" ->
              refresh_resolved(s1, ProjectContext(s1.engine.context),
                               menu_name, in)
         [] in.fb = "TankError" ->
              Log(create_sgtk_disabled_menu(s1, menu_name),
                  "display_error", 0, "")
         [] OTHER -> Raise(s1, in.fb)

\* a refresh_engine that restores the previous context without comparing it
refresh_engine_restores(st, prev_context, menu_name, in) ==
    LET s0 == Log(st, "refresh_engine", 0, st.scene)
    IN IF ~s0.engine.running
       THEN s0
       ELSE IF s0.scene = ""
       THEN change_context(s0, prev_context, in.cc)
       ELSE LET s1 == Log(s0, "context_from_path", 0, in.res.err)
            IN CASE in.res.err = "none" ->
                      refresh_resolved(s1, in.res.ctx, menu_name, in)
                 [] in.res.err = "TankError" ->
                      refresh_fallback(s1, menu_name, in)
                 [] OTHER -> Raise(s1, in.res.err)

\* refresh_engine(engine_name, prev_context, menu_name).  in.res is what
\* tank_from_path and context_from_path make of the scene's path, in.fb what
\* the fallback resolution does, in.cc what change_context does.
refresh_engine(st, prev_context, menu_name, in) ==
    LET s0 == Log(st, "refresh_engine", 0, st.scene)
    IN IF ~s0.engine.running
       THEN s0
       ELSE IF s0.scene = ""
       THEN IF prev_context # s0.engine.context
            THEN change_context(s0, prev_context, in.cc)
            ELSE s0
       ELSE LET s1 == Log(s0, "context_from_path", 0, in.res.err)
            IN CASE in.res.err = "none" ->
                      refresh_resolved(s1, in.res.ctx, menu_name, in)
                 [] in.res.err = "TankError" ->
                      refresh_fallback(s1, menu_name, in)
                 [] OTHER -> Raise(s1, in.res.err)

\* an on_scene_event_callback without its try
on_scene_event_callback_propagates(st, prev_context, menu_name, in) ==
    refresh_engine(st, prev_context, menu_name, in)

\* on_scene_event_callback: whatever refresh_engine raises ends in show_error
on_scene_event_callback(st, prev_context, menu_name, in) ==
    LET s1 == refresh_engine(st, prev_context, menu_name, in)
    IN IF s1.exc # "none"
       THEN Log(Raise(s1, "none"), "show_error", 0, s1.exc)
       ELSE s1

----------------------------------------------------------------------------
(* The callbacks of a wrapper, and a call of an entry point *)

\* a __scene_event_callback that forgets run_once
scene_event_callback_again(st, w, in) ==
    LET cb == st.watchers[w].cb
        s2 == Log(st, "cb_fn", w, PatchInfo(st, w))
    IN IF cb.kind = "user"
       THEN [s2 EXCEPT !.fired = @ \cup {w}]
       ELSE on_scene_event_callback(s2, cb.prev_context, cb.menu_name, in)

\* SceneEventWatcher.__scene_event_callback(watcher)
scene_event_callback(st, w, in) ==
    LET s1 == IF st.watchers[w].run_once THEN stop_watching(st, w) ELSE st
        cb == s1.watchers[w].cb
        s2 == Log(s1, "cb_fn", w, PatchInfo(s1, w))
    IN IF cb.kind = "user"
       THEN [s2 EXCEPT !.fired = @ \cup {w}]
       ELSE on_scene_event_callback(s2, cb.prev_context, cb.menu_name, in)

\* an exiting callback that leaves the wrappers where they are
clarisse_exiting_callback_idle(st, w) == st

\* a wrapper that runs its post-callback whether or not the wrapped
\* function returned
wrapper_post_always(st, layer, name, in) ==
    IF layer.kind = "post"
    THEN scene_event_callback(
             Log(st, "post_callback", layer.watcher, name), layer.watcher, in)
    ELSE st

\* SceneEventWatcher.__clarisse_exiting_callback(watcher)
clarisse_exiting_callback(st, w) == stop_watching(st, w)

\* the host's own function behind an entry point: a scene function leaves
\* the project filename in.scene, quit ends the host unless it is called
\* off (in.exits); either may raise (in.raises), and otherwise returns its
\* result, which ret names after the function
HostOriginal(st, name, in) ==
    LET s0 == Log(st, "original", 0, name)
    IN IF in.raises
       THEN Raise(s0, "HostError")
       ELSE IF name = SCENE_QUIT_EVENT_NAME
       THEN [s0 EXCEPT !.alive = ~in.exits, !.ret = name]
       ELSE [s0 EXCEPT !.scene = in.scene, !.ret = name]

\* a wrapper that runs its post-callback before the wrapped function
wrapper_pre_early(st, layer, name) ==
    IF layer.kind = "pre"
    THEN clarisse_exiting_callback(
             Log(st, "pre_callback", layer.watcher, name), layer.watcher)
    ELSE scene_event_callback(
             Log(st, "post_callback", layer.watcher, name), layer.watcher,
             NoInput)

\* the pre-callback part of wrapped()'s wrapper
wrapper_pre(st, layer, name) ==
    IF layer.kind = "pre"
    THEN clarisse_exiting_callback(
             Log(st, "pre_callback", layer.watcher, name), layer.watcher)
    ELSE st

\* the post-callback part of wrapped()'s wrapper: reached only when the
\* wrapped function returned
wrapper_post(st, layer, name, in) ==
    IF st.exc = "none" /\ st.alive /\ layer.kind = "post"
    THEN scene_event_callback(
             Log(st, "post_callback", layer.watcher, name), layer.watcher, in)
    ELSE st

\* a call of the function value f: wrapped()'s wrapper around f._original,
\* down to the host's original.  The wrapper returns the result of the
\* wrapped function; an exception of a callback leaves it without a result.
RECURSIVE wrapper(_, _, _, _)
wrapper(st, f, name, in) ==
    IF f = <<>>
    THEN HostOriginal(st, name, in)
    ELSE LET s1 == wrapper_pre(st, Head(f), name)
             s2 == IF s1.exc # "none"
                   THEN s1
                   ELSE wrapper(s1, Tail(f), name, in)
             s3 == wrapper_post(s2, Head(f), name, in)
         IN IF s3.exc # "none" THEN [s3 EXCEPT !.ret = "none"] ELSE s3

----------------------------------------------------------------------------
(* The UI pump (pyside_clarisse.py) and the toolkit's QApplication *)

\* QtGui.QApplication.instance() is None
NoQApplication(st) == st.qapp \in {"none", "destroyed"}

\* self.app.closingDown()
closingDown(st) == st.qapp \in {"closing", "destroyed"}

\* are_windows_visible()
are_windows_visible(st) == st.visible

\* ix.application.add_to_event_loop_single(pump.process_events)
add_to_event_loop_single(st, pump) ==
    Log([st EXCEPT !.idle = Append(@, pump)], "add_to_event_loop_single", pump, "")

FreshPump(st) == CHOOSE p \in Pumps : ~st.pumps[p].made

\* cls(app)
NewPump(st, pump) ==
    [st EXCEPT !.pumps[pump] = [made |-> TRUE, own_helper |-> "unset"]]

\* an exec_ that makes a pump whether or not the class has one
exec_always(st) ==
    LET new == FreshPump(st)
    IN add_to_event_loop_single([NewPump(st, new) EXCEPT !.helper = new], new)

\* PySideAppClarisseHelper.exec_(app): `not cls._helper` reads the class
\* attribute
exec_(st) ==
    IF st.helper = 0
    THEN LET new == FreshPump(st)
         IN add_to_event_loop_single([NewPump(st, new) EXCEPT !.helper = new], new)
    ELSE st

\* process_events up to its last statement: with a window visible the
\* toolkit's events are drained, and a handler among them may call exec_
processEvents(st, in) ==
    IF are_windows_visible(st)
    THEN LET s1 == Log(st, "processEvents", 0, "")
         IN IF in.reenters THEN exec_(s1) ELSE s1
    ELSE st

\* a process_events that re-arms only while a window is visible
process_events_visible_only(st, pump, in) ==
    LET s1 == processEvents(st, in)
    IN IF ~closingDown(s1)
       THEN IF are_windows_visible(st)
            THEN add_to_event_loop_single(s1, pump)
            ELSE s1
       ELSE Log([s1 EXCEPT !.pumps[pump].own_helper = "None"],
                "drop_helper", pump, "")

\* PySideAppClarisseHelper.process_events(self): `self._helper = None` binds
\* an attribute of the object; the class attribute stays what it is
process_events(st, pump, in) ==
    LET s1 == processEvents(st, in)
    IN IF ~closingDown(s1)
       THEN add_to_event_loop_single(s1, pump)
       ELSE Log([s1 EXCEPT !.pumps[pump].own_helper = "None"],
                "drop_helper", pump, "")

\* ClarisseEngine._initialise_qapplication
initialise_qapplication(st) ==
    LET s1 == IF NoQApplication(st) THEN [st EXCEPT !.qapp = "running"] ELSE st
    IN exec_(s1)

----------------------------------------------------------------------------
(* The engine's life cycle *)

SupportedPlatforms == {"darwin", "win32", "linux64"}

\* float(".".join(version.split(".")[:2])) in hundredths: the minor part is
\* read as a decimal fraction, so "3.10" is 3.1
ClarisseVer(v) ==
    v.major * 100 + (IF v.digits = 1 THEN v.minor * 10 ELSE v.minor)

MinVersion == 360

\* the last version the integration was tested with, 5.0
LastTested == 500

\* a compatibility warning that leaves os.environ alone
compatibility_warning_unmarked(st, ei) ==
    LET show == /\ has_ui
                /\ DIALOG_SHOWN \notin st.environ
                /\ ~(ei.version.major < settings.compatibility_dialog_min_version)
        s2 == IF show THEN Log(st, "show_info", 0, "") ELSE st
        s3 == Log(s2, "logger_warning", 0, "compatibility")
    IN IF ei.platform \in {"win32"}
       THEN [s3 EXCEPT !.environ = @ \cup {SKIP_IMPORT}]
       ELSE s3

\* init_engine, the block of `clarisse_ver > 5.0`: the dialog is due on a
\* GUI host whose environment lacks the marker; the marker is set at once,
\* and then a major version below the setting calls the dialog off
compatibility_warning(st, ei) ==
    LET due == has_ui /\ DIALOG_SHOWN \notin st.environ
        s1 == IF due THEN [st EXCEPT !.environ = @ \cup {DIALOG_SHOWN}] ELSE st
        show == /\ due
                /\ ~(ei.version.major < settings.compatibility_dialog_min_version)
        s2 == IF show THEN Log(s1, "show_info", 0, "") ELSE s1
        s3 == Log(s2, "logger_warning", 0, "compatibility")
    IN IF ei.platform \in {"win32"}
       THEN [s3 EXCEPT !.environ = @ \cup {SKIP_IMPORT}]
       ELSE s3

\* init_engine up to the menu name: the platform and version checks
check_host(st, ei) ==
    IF ei.platform \notin SupportedPlatforms
    THEN Raise(st, "TankError")
    ELSE IF ClarisseVer(ei.version) < MinVersion
    THEN Raise(st, "TankError")
    ELSE IF ClarisseVer(ei.version) > LastTested
    THEN compatibility_warning(st, ei)
    ELSE st

\* ClarisseEngine.init_engine, self being the engine under construction
init_engine(st, ei) ==
    LET s0 == check_host(Log(st, "init_engine", 0, ""), ei)
    IN IF s0.exc # "none"
       THEN s0
       ELSE LET s1 == [Log(s0, "menu_name", 0, "") EXCEPT
                         !.engine.menu_name =
                             IF settings.use_sgtk_as_menu_name
                             THEN "Sgtk" ELSE "Shotgun"]
            IN IF ~settings.automatic_context_switch
               THEN s1
               ELSE LET new == FreshWatcher(s1)
                        s2 == SceneEventWatcher(
                                  s1, new,
                                  EngineCb(s1.engine.context,
                                           s1.engine.menu_name),
                                  FALSE)
                    IN IF s2.exc # "none"
                       THEN s2
                       ELSE [s2 EXCEPT !.engine.watcher = new]

\* clarisse.utils.executeDeferred(command_function) for entry i of the
\* setting: engine.py imports no module under the name clarisse, so looking
\* the name up raises NameError before anything is handed over
executeDeferred(st, i, command_name) ==
    Raise(Log(st, "executeDeferred", i, command_name), "NameError")

\* the commands of one app instance are deferred one after the other, in
\* the order of the dictionary
RECURSIVE defer_all(_, _, _)
defer_all(st, i, names) ==
    IF names = {} \/ st.exc # "none"
    THEN st
    ELSE LET c == CHOOSE n \in names : TRUE
         IN defer_all(
                executeDeferred(Log(st, "logger_debug", i, c), i, c),
                i, names \ {c})

\* app_instance_commands.get(app_instance_name): the names of the commands
\* registered by that app instance; the empty set stands for None
command_dict(app_instance_name) ==
    IF app_instance_name = ""
    THEN {}
    ELSE {c \in DOMAIN commands : commands[c] = app_instance_name}

\* a turn of the loop that gives up on an app that is not installed
run_startup_entry_strict(st, i, e) ==
    IF command_dict(e.app_instance) = {}
    THEN Raise(st, "TankError")
    ELSE IF e.name = ""
    THEN defer_all(st, i, command_dict(e.app_instance))
    ELSE IF e.name \in command_dict(e.app_instance)
    THEN executeDeferred(Log(st, "logger_debug", i, e.name), i, e.name)
    ELSE Log(st, "logger_warning", i, "unknown command")

\* one turn of the loop of _run_app_instance_commands, for entry i
run_startup_entry(st, i, e) ==
    IF command_dict(e.app_instance) = {}
    THEN Log(st, "logger_warning", i, "not installed")
    ELSE IF e.name = ""
    THEN defer_all(st, i, command_dict(e.app_instance))
    ELSE IF e.name \in command_dict(e.app_instance)
    THEN executeDeferred(Log(st, "logger_debug", i, e.name), i, e.name)
    ELSE Log(st, "logger_warning", i, "unknown command")

\* ClarisseEngine._run_app_instance_commands, from entry i of the setting on
RECURSIVE run_app_instance_commands(_, _)
run_app_instance_commands(st, i) ==
    IF i > Len(settings.run_at_startup) \/ st.exc # "none"
    THEN st
    ELSE run_app_instance_commands(
             run_startup_entry(st, i, settings.run_at_startup[i]), i + 1)

\* a post_app_init that leaves the pump to whoever needs it first
post_app_init_no_pump(st) ==
    LET s1 == Log(st, "post_app_init", 0, "")
    IN run_app_instance_commands(create_shotgun_menu(s1), 1)

\* ClarisseEngine.post_app_init
post_app_init(st) ==
    LET s1 == Log(st, "post_app_init", 0, "")
        s2 == IF has_ui THEN initialise_qapplication(s1) ELSE s1
    IN run_app_instance_commands(create_shotgun_menu(s2), 1)

\* ClarisseEngine.show_dialog: without a UI it returns None; otherwise the
\* dialog is made, appended to __qt_dialogs and shown, and the widget is
\* returned
show_dialog(st) ==
    IF ~has_ui
    THEN Log(st, "logger_error", 0, "no UI")
    ELSE LET s1 == [st EXCEPT !.engine.qt_dialogs = @ + 1, !.visible = TRUE]
         IN [Log(s1, "dialog_show", s1.engine.qt_dialogs, "") EXCEPT
               !.ret = "widget"]

\* destroy_engine's loop over __qt_dialogs, from dialog i on: hide(),
\* setParent(None), deleteLater()
RECURSIVE release_dialogs(_, _)
release_dialogs(st, i) ==
    IF i > st.engine.qt_dialogs
    THEN st
    ELSE release_dialogs(
             Log(Log([st EXCEPT !.visible = FALSE], "dialog_hide", i, ""),
                 "dialog_deleteLater", i, ""),
             i + 1)

\* a destroy_engine that leaves the dialogs alone
destroy_engine_keeps_dialogs(st) ==
    LET s1 == clear_sgtk_menu(Log(st, "destroy_engine", 0, ""),
                              st.engine.menu_name)
    IN IF ~settings.automatic_context_switch
       THEN s1
       ELSE IF s1.engine.watcher = 0
       THEN Raise(s1, "AttributeError")
       ELSE stop_watching(s1, s1.engine.watcher)

\* a destroy_engine that stops its watcher whatever the setting
destroy_engine_always_stops(st) ==
    LET s0 == clear_sgtk_menu(Log(st, "destroy_engine", 0, ""),
                              st.engine.menu_name)
        s1 == release_dialogs(s0, 1)
    IN IF s1.engine.watcher = 0
       THEN Raise(s1, "AttributeError")
       ELSE stop_watching(s1, s1.engine.watcher)

\* ClarisseEngine.destroy_engine: the menu is cleared, the dialogs are
\* hidden and released, the watcher is stopped
destroy_engine(st) ==
    LET s0 == clear_sgtk_menu(Log(st, "destroy_engine", 0, ""),
                              st.engine.menu_name)
        s1 == release_dialogs(s0, 1)
    IN IF ~settings.automatic_context_switch
       THEN s1
       ELSE IF s1.engine.watcher = 0
       THEN Raise(s1, "AttributeError")
       ELSE stop_watching(s1, s1.engine.watcher)

\* the framework drops the engine object: nothing holds its watcher any more
DropEngine(st) ==
    [st EXCEPT
       !.engine = NoEngine,
       !.watchers = [w \in Watchers |->
                       IF w = st.engine.watcher
                       THEN [@[w] EXCEPT !.held = FALSE]
                       ELSE @[w]]]

\* the framework starts an engine in context ctx: the constructor runs
\* init_engine, and post_app_init once the apps are loaded; an exception of
\* either aborts the start and no engine becomes current
start_engine(st, ctx, ei) ==
    LET s0 == [st EXCEPT !.engine = [NoEngine EXCEPT !.context = ctx]]
        s1 == init_engine(s0, ei)
        s2 == post_app_init(s1)
    IN IF s1.exc # "none"
       THEN DropEngine(s1)
       ELSE IF s2.exc # "none"
       THEN DropEngine(s2)
       ELSE [s2 EXCEPT !.engine.running = TRUE]

----------------------------------------------------------------------------
(* Inputs *)

SceneFiles == {"", "/proj/scene.project"}

Outcomes == {Ok(c) : c \in Contexts} \cup {Err("TankError"), Err("KeyError")}

Platforms == {"linux64", "linux2"}

Versions ==
    { [major |-> 3, minor |-> 5, digits |-> 1],
      [major |-> 3, minor |-> 6, digits |-> 1],
      [major |-> 5, minor |-> 5, digits |-> 1] }

EngineInputs == [platform : Platforms, version : Versions]

\* the hosts the version checks are run on: Windows too, and versions
\* 3.10, 5.0 and 6.0
AllPlatforms == Platforms \cup {"win32"}

AllVersions ==
    Versions \cup
    { [major |-> 3, minor |-> 10, digits |-> 2],
      [major |-> 5, minor |-> 0, digits |-> 1],
      [major |-> 6, minor |-> 0, digits |-> 1] }

AllEngineInputs == [platform : AllPlatforms, version : AllVersions]

\* the engine's settings; the defaults of the two that Spec leaves alone
Settings(auto, sgtk, min_version, startup) ==
    [automatic_context_switch |-> auto, use_sgtk_as_menu_name |-> sgtk,
     compatibility_dialog_min_version |-> min_version,
     run_at_startup |-> startup]

DefaultMinVersion == 6

\* the run_at_startup settings considered: up to MaxStartup entries that
\* name an app instance's commands, one command, an unknown command or an
\* app that is not installed
StartupEntries ==
    {StartupEntry("A", ""), StartupEntry("B", "cmd3"),
     StartupEntry("B", "nope"), StartupEntry("Z", "")}

RECURSIVE SeqsUpTo(_, _)
SeqsUpTo(set, n) ==
    IF n = 0
    THEN {<<>>}
    ELSE LET shorter == SeqsUpTo(set, n - 1)
         IN shorter \cup {Append(q, e) : q \in shorter, e \in set}

StartupSettings == SeqsUpTo(StartupEntries, MaxStartup)

NoEngineInput ==
    [platform |-> "linux64", version |-> [major |-> 5, minor |-> 0, digits |-> 1]]

\* the hosts considered: all entry points, or all but one
HostConfigs == {Names} \cup {Names \ {n} : n \in Names}

\* the hosts the engine is run on: a complete one, one without a scene
\* entry point, one without quit
EngineHostConfigs ==
    {Names, Names \ {"import_project"}, Names \ {SCENE_QUIT_EVENT_NAME}}

\* the call of entry point `name` reaches the engine's refresh
ReachesRefresh(name, in) ==
    /\ engine.running
    /\ name # SCENE_QUIT_EVENT_NAME
    /\ ~in.raises
    /\ app[name] # <<>>

\* the inputs of a call of `name`; what the call does not read is left at
\* its default
In(scn, res, fb, cc) ==
    [NoInput EXCEPT !.scene = scn, !.res = res, !.fb = fb, !.cc = cc]

RefreshInputs ==
    LET file == CHOOSE f \in SceneFiles : f # ""
    IN {In("", NoOutcome, "unused", cc) : cc \in {"ok", "TankError"}}
       \cup {In(file, Ok(c), "unused", cc) :
               c \in Contexts, cc \in {"ok", "TankError"}}
       \cup {In(file, Err("TankError"), "none", cc) : cc \in {"ok", "TankError"}}
       \cup {In(file, Err("TankError"), fb, "ok") : fb \in {"TankError", "KeyError"}}
       \cup {In(file, Err("KeyError"), "unused", "ok")}

CallInputs(name) ==
    {[NoInput EXCEPT !.raises = TRUE]}
    \cup IF name = SCENE_QUIT_EVENT_NAME
         THEN {[NoInput EXCEPT !.exits = e] : e \in BOOLEAN}
         ELSE IF ReachesRefresh(name, NoInput)
         THEN RefreshInputs
         ELSE {[NoInput EXCEPT !.scene = f] : f \in SceneFiles}

----------------------------------------------------------------------------
(* Actions *)

Op(op, name, w, ctx, in, ei) ==
    [op |-> op, name |-> name, w |-> w, ctx |-> ctx, in |-> in, ei |-> ei]

\* the state st becomes the program's state; a watcher object nothing refers
\* to is collected; the host and the configuration stay what they are
Commit(st, o) ==
    /\ app' = st.app
    /\ scene' = st.scene
    /\ alive' = st.alive
    /\ watchers' = [w \in Watchers |->
                      IF Free(st, w) THEN NoWatcher ELSE st.watchers[w]]
    /\ fired' = st.fired
    /\ engine' = st.engine
    /\ mainMenu' = st.mainMenu
    /\ menu_callbacks' = st.menu_callbacks
    /\ environ' = st.environ
    /\ qapp' = st.qapp
    /\ visible' = st.visible
    /\ helper' = st.helper
    /\ pumps' = st.pumps
    /\ idle' = st.idle
    /\ deferred' = st.deferred
    /\ lastOp' = [op |-> o.op, name |-> o.name, w |-> o.w, ctx |-> o.ctx,
                  in |-> o.in, ei |-> o.ei, log |-> st.log, exc |-> st.exc,
                  ret |-> st.ret]
    /\ UNCHANGED <<exposed, gui, settings>>

\* somebody constructs a watcher of their own around a callback of theirs
NewWatcher(w, run_once) ==
    /\ alive
    /\ watchers[w] = NoWatcher
    /\ Commit(SceneEventWatcher(S, w, UserCb, run_once),
              Op("__init__", "", w, NoCtx, NoInput, NoEngineInput))

\* the holder of a watcher calls its start_watching()
StartWatching(w) ==
    /\ alive
    /\ watchers[w].held
    /\ watchers[w].cb.kind = "user"
    /\ \A n \in Names : Len(app[n]) < MaxLayers
    /\ Commit([start_watching(S, w) EXCEPT !.fired = @ \ {w}],
              Op("start_watching", "", w, NoCtx, NoInput, NoEngineInput))

\* the holder of a watcher calls its stop_watching()
StopWatching(w) ==
    /\ alive
    /\ watchers[w].held
    /\ watchers[w].cb.kind = "user"
    /\ Commit(stop_watching(S, w),
              Op("stop_watching", "", w, NoCtx, NoInput, NoEngineInput))

\* the host (its user interface, a script) calls one of its entry points
HostCall ==
    /\ alive
    /\ \E name \in exposed : \E in \in CallInputs(name) :
          Commit(wrapper(S, app[name], name, in),
                 Op("call", name, 0, NoCtx, in, NoEngineInput))

\* the framework starts the engine on a host that is one of `hosts`
StartEngineOn(hosts) ==
    /\ alive
    /\ ~engine.running
    /\ \E w \in Watchers : Free(S, w)
    /\ \E p \in Pumps : ~pumps[p].made
    /\ \E ctx \in Contexts : \E ei \in hosts :
          Commit(start_engine(S, ctx, ei),
                 Op("start_engine", "", 0, ctx, NoInput, ei))

\* the framework starts the engine
StartEngine == StartEngineOn(EngineInputs)

\* the framework starts the engine, on any platform and version
StartEngineAnywhere == StartEngineOn(AllEngineInputs)

\* an app asks the running engine for another context
ChangeContext ==
    /\ alive
    /\ engine.running
    /\ \E ctx \in Contexts : \E cc \in {"ok", "TankError"} :
          Commit(change_context(S, ctx, cc),
                 Op("change_context", "", 0, ctx,
                    [NoInput EXCEPT !.cc = cc], NoEngineInput))

\* the framework destroys the running engine
DestroyEngine ==
    /\ alive
    /\ engine.running
    /\ Commit(DropEngine(destroy_engine(S)),
              Op("destroy_engine", "", 0, NoCtx, NoInput, NoEngineInput))

\* an app of the running engine shows a dialog
ShowDialog ==
    /\ alive
    /\ engine.running
    /\ engine.qt_dialogs < MaxDialogs
    /\ Commit(show_dialog(S),
              Op("show_dialog", "", 0, NoCtx, NoInput, NoEngineInput))

\* the user closes the toolkit's windows
CloseWindows ==
    /\ alive
    /\ visible
    /\ Commit([S EXCEPT !.visible = FALSE],
              Op("close_windows", "", 0, NoCtx, NoInput, NoEngineInput))

\* the toolkit's QApplication begins to shut down
QtShutdown ==
    /\ alive
    /\ qapp = "running"
    /\ Commit([S EXCEPT !.qapp = "closing"],
              Op("qt_shutdown", "", 0, NoCtx, NoInput, NoEngineInput))

\* the QApplication that was shutting down is gone, and its windows with it
QtDestroyed ==
    /\ alive
    /\ qapp = "closing"
    /\ Commit([S EXCEPT !.qapp = "destroyed", !.visible = FALSE],
              Op("qt_destroyed", "", 0, NoCtx, NoInput, NoEngineInput))

\* the host is idle: it takes the first pending callback off its queue and
\* runs it
IdleTick ==
    /\ alive
    /\ idle # <<>>
    /\ \E p \in Pumps : ~pumps[p].made
    /\ \E r \in (IF visible THEN BOOLEAN ELSE {FALSE}) :
          LET in == [NoInput EXCEPT !.reenters = r]
          IN Commit(process_events([S EXCEPT !.idle = Tail(@)], Head(idle), in),
                    Op("idle_tick", "", Head(idle), NoCtx, in, NoEngineInput))

----------------------------------------------------------------------------
(* Specifications *)

NoOp == [op |-> "none", name |-> "", w |-> 0, ctx |-> NoCtx, in |-> NoInput,
         ei |-> NoEngineInput, log |-> <<>>, exc |-> "none", ret |-> "none"]

InitHost ==
    /\ app = [n \in Names |-> <<>>]
    /\ scene = ""
    /\ alive = TRUE
    /\ watchers = [w \in Watchers |-> NoWatcher]
    /\ fired = {}
    /\ engine = NoEngine
    /\ mainMenu = {}
    /\ menu_callbacks = {}
    /\ environ = {}
    /\ qapp = "none"
    /\ visible = FALSE
    /\ helper = 0
    /\ pumps = [p \in Pumps |-> NoPump]
    /\ idle = <<>>
    /\ deferred = <<>>
    /\ lastOp = NoOp

\* one watcher of its own on a host without engine
InitWatcher ==
    /\ InitHost
    /\ exposed \in HostConfigs
    /\ gui = TRUE
    /\ settings = Settings(TRUE, FALSE, DefaultMinVersion, <<>>)

NextWatcher ==
    \/ \E r \in BOOLEAN : NewWatcher(1, r)
    \/ StartWatching(1)
    \/ StopWatching(1)
    \/ HostCall

SpecWatcher == InitWatcher /\ [][NextWatcher]_vars

\* the engine on its host, under any configuration
Init ==
    /\ InitHost
    /\ exposed \in EngineHostConfigs
    /\ gui \in BOOLEAN
    /\ settings \in {Settings(auto, sgtk, DefaultMinVersion, <<>>) :
                       auto \in BOOLEAN, sgtk \in BOOLEAN}

Next ==
    \/ StartEngine
    \/ ChangeContext
    \/ DestroyEngine
    \/ HostCall

Spec == Init /\ [][Next]_vars

\* the engine's starts on a complete host, under any platform, version and
\* compatibility_dialog_min_version
InitHostCheck ==
    /\ InitHost
    /\ exposed = Names
    /\ gui \in BOOLEAN
    /\ settings \in {Settings(TRUE, FALSE, min_version, <<>>) :
                       min_version \in {5, 6}}

NextHostCheck ==
    \/ StartEngineAnywhere
    \/ DestroyEngine

SpecHostCheck == InitHostCheck /\ [][NextHostCheck]_vars

\* the engine's starts under the run_at_startup settings
InitStartup ==
    /\ InitHost
    /\ exposed = Names
    /\ gui = TRUE
    /\ settings \in {Settings(FALSE, FALSE, DefaultMinVersion, startup) :
                       startup \in StartupSettings}

NextStartup ==
    \/ StartEngine
    \/ DestroyEngine

SpecStartup == InitStartup /\ [][NextStartup]_vars

\* the UI pump under the engine's starts, the dialogs and the host's idle
\* ticks
InitPump ==
    /\ InitHost
    /\ exposed = Names
    /\ gui = TRUE
    /\ settings = Settings(FALSE, FALSE, DefaultMinVersion, <<>>)

NextPump ==
    \/ StartEngine
    \/ DestroyEngine
    \/ ShowDialog
    \/ CloseWindows
    \/ QtShutdown
    \/ QtDestroyed
    \/ IdleTick

SpecPump == InitPump /\ [][NextPump]_vars

\* the engine's whole life on a complete host: starts, context changes,
\* scene events, dialogs and destroys, on a GUI or a batch host
InitLife ==
    /\ InitHost
    /\ exposed = Names
    /\ gui \in BOOLEAN
    /\ settings \in {Settings(auto, FALSE, DefaultMinVersion, <<>>) :
                       auto \in BOOLEAN}

NextLife ==
    \/ StartEngine
    \/ ChangeContext
    \/ HostCall
    \/ ShowDialog
    \/ CloseWindows
    \/ DestroyEngine

SpecLife == InitLife /\ [][NextLife]_vars

\* two watchers of their own on a complete host without engine
InitTwo ==
    /\ InitHost
    /\ exposed = Names
    /\ gui = TRUE
    /\ settings = Settings(TRUE, FALSE, DefaultMinVersion, <<>>)

NextTwo ==
    \/ \E w \in {1, 2} : \E r \in BOOLEAN : NewWatcher(w, r)
    \/ \E w \in {1, 2} : StartWatching(w)
    \/ \E w \in {1, 2} : StopWatching(w)
    \/ HostCall

SpecTwo == InitTwo /\ [][NextTwo]_vars

----------------------------------------------------------------------------
(* Reading the log of the last operation *)

Has(log, ev) == \E i \in 1..Len(log) : log[i].ev = ev

Count(log, ev) == Cardinality({i \in 1..Len(log) : log[i].ev = ev})

CountOf(log, ev, w) ==
    Cardinality({i \in 1..Len(log) : log[i].ev = ev /\ log[i].w = w})

\* the wrapper start_watching installs for watcher w on entry point n
WrapperOf(w, n) ==
    wrapped(<<>>, w, IF n = SCENE_QUIT_EVENT_NAME THEN "pre" ELSE "post")

\* watcher w has nothing installed and records nothing
Unpatched(w) == ~IsPatched(S, w)

----------------------------------------------------------------------------
(* The claims about one SceneEventWatcher (SpecWatcher) *)

\* C1: with a single watcher, after a start_watching() (the constructor's
\* included) every entry point the host exposes is exactly one wrapper of
\* that watcher around the host's original, after a stop_watching() every
\* entry point is the host's original, and no entry point is ever a wrapper
\* around a wrapper.
C1_NeverDoubleWrapped ==
    \A n \in exposed :
        /\ Len(app[n]) <= 1
        /\ lastOp.op = "stop_watching" => app[n] = <<>>
        /\ lastOp.op \in {"__init__", "start_watching"} =>
               app[n] = WrapperOf(lastOp.w, n)

C1_Witness ==
    /\ lastOp.op = "start_watching"
    /\ exposed = Names
    /\ \A n \in Names : app[n] = WrapperOf(1, n)

\* C2: stop_watching() sets every entry point in the watcher's table to the
\* _original of the wrapper stored there, leaves the other entry points
\* alone and empties the table; with an empty table it changes nothing.
C2_StopRestores ==
    [][lastOp'.op = "stop_watching" =>
         LET w == lastOp'.w
             t == watchers[w].wrapped_fns
         IN /\ \A n \in Names :
                  app'[n] = IF n \in t.keys THEN Tail(t.fn[n]) ELSE app[n]
            /\ \A n \in t.keys : app'[n] = <<>>
            /\ watchers'[w].wrapped_fns = EmptyTable
            /\ t.keys = {} => (app' = app /\ watchers' = watchers)]_vars

C2_Witness ==
    /\ lastOp.op = "stop_watching"
    /\ lastOp.log[1].info = "restored"
    /\ watchers[1].held
    /\ watchers[1].wrapped_fns = EmptyTable
    /\ \A n \in exposed : app[n] = <<>>

\* C3: a call of a patched scene entry point runs the host's original
\* first, and the watcher's callback after it and only if it returned; a
\* call of the patched quit runs the pre-callback, and then the host's quit.
C3_CallbackOrder ==
    [][(lastOp'.op = "call" /\ app[lastOp'.name] # <<>>) =>
         LET n == lastOp'.name
             log == lastOp'.log
             w == Head(app[n]).watcher
         IN IF n = SCENE_QUIT_EVENT_NAME
            THEN /\ log[1] = Entry("pre_callback", w, n)
                 /\ Count(log, "original") = 1
                 /\ \A i, j \in 1..Len(log) :
                       (log[i].ev = "pre_callback" /\ log[j].ev = "original")
                           => i < j
                 /\ ~Has(log, "cb_fn")
            ELSE /\ log[1] = Entry("original", 0, n)
                 /\ Count(log, "original") = 1
                 /\ CountOf(log, "cb_fn", w) =
                        (IF lastOp'.in.raises THEN 0 ELSE 1)
                 /\ ~Has(log, "pre_callback")]_vars

C3_Witness ==
    /\ lastOp.op = "call"
    /\ lastOp.name = "save_project"
    /\ Len(lastOp.log) >= 3
    /\ lastOp.log[1].ev = "original"
    /\ lastOp.log[2].ev = "post_callback"
    /\ lastOp.log[Len(lastOp.log)].ev = "cb_fn"

\* C4: a run_once watcher's callback runs at most once over the host's
\* events: a call runs it at most once and never once it has run; the
\* watcher is stopped when the callback begins, and nothing is patched by it
\* from then on.
C4_RunOnce ==
    [][\A w \in Watchers :
          (watchers[w].run_once /\ watchers[w].cb.kind = "user") =>
             /\ lastOp'.op = "call" =>
                  /\ CountOf(lastOp'.log, "cb_fn", w) <= 1
                  /\ w \in fired => CountOf(lastOp'.log, "cb_fn", w) = 0
                  /\ \A i \in 1..Len(lastOp'.log) :
                        (lastOp'.log[i].ev = "cb_fn" /\ lastOp'.log[i].w = w)
                            => lastOp'.log[i].info = "stopped"
             /\ w \in fired' => Unpatched(w)']_vars

C4_Witness ==
    /\ lastOp.op = "call"
    /\ watchers[1].run_once
    /\ watchers[1].held
    /\ 1 \in fired
    /\ lastOp.log[Len(lastOp.log)] = Entry("cb_fn", 1, "stopped")
    /\ Unpatched(1)

\* C5: start_watching() on a host that lacks one of the seven entry points
\* patches every entry point the host does expose and raises nothing.
C5_MissingEntryPointSkipped ==
    lastOp.op \in {"__init__", "start_watching"} =>
        /\ lastOp.exc = "none"
        /\ \A n \in exposed : app[n] = WrapperOf(lastOp.w, n)

----------------------------------------------------------------------------
(* The claims about the engine and its context refresh (Spec) *)

\* the placeholder of the disabled state, and the engine's normal menu
Placeholder(menu) == DisabledItem(engine.menu_name) \in menu

NormalMenu(menu) ==
    \E m \in menu : m.menu = engine.menu_name /\ m.item = "commands"

\* the call that was just made ran refresh_engine on an empty file path
EmptyPathRefresh(o) ==
    /\ o.op = "call"
    /\ \E i \in 1..Len(o.log) : o.log[i] = Entry("refresh_engine", 0, "")

\* the call's inputs make the path resolution, or else the fallback, succeed
Resolves(in) ==
    \/ in.res.err = "none"
    \/ in.res.err = "TankError" /\ in.fb = "none"

ResolvedContext(in) ==
    IF in.res.err = "none" THEN in.res.ctx ELSE ProjectContext(engine.context)

\* C6: at most one watcher has wrappers installed on the host at any time,
\* and one call of an entry point runs the scene-event callback at most once.
C6_AtMostOneWatcher ==
    /\ Cardinality({w \in Watchers : IsPatched(S, w)}) <= 1
    /\ lastOp.op = "call" => Count(lastOp.log, "cb_fn") <= 1

C8_DisabledReplacesMenu ==
    [][(lastOp'.op = "call" /\ gui /\ engine.running
          /\ lastOp'.in.res.err = "TankError" /\ lastOp'.in.fb = "TankError") =>
         /\ Placeholder(mainMenu')
         /\ ~NormalMenu(mainMenu')
         /\ engine'.context = engine.context
         /\ ~Has(lastOp'.log, "change_context")]_vars

\* C9 as claimed: a refresh that resolves a context removes the placeholder,
\* leaves the normal menu present, and calls change_context once if the
\* resolved context differs from the engine's and not at all if it is equal.
C9_ResolvedRefresh ==
    [][(lastOp'.op = "call" /\ engine.running /\ Resolves(lastOp'.in)) =>
         /\ ~Placeholder(mainMenu')
         /\ NormalMenu(mainMenu')
         /\ Count(lastOp'.log, "change_context") =
                (IF ResolvedContext(lastOp'.in) # engine.context
                 THEN 1 ELSE 0)]_vars

\* C9 as amended: the same, the normal menu being present when the host is
\* a GUI application (in batch mode the engine builds no menu).
C9_ResolvedRefreshGui ==
    [][(lastOp'.op = "call" /\ engine.running /\ Resolves(lastOp'.in)) =>
         /\ ~Placeholder(mainMenu')
         /\ gui => NormalMenu(mainMenu')
         /\ Count(lastOp'.log, "remove_sgtk_disabled_menu") = 1
         /\ Count(lastOp'.log, "change_context") =
                (IF ResolvedContext(lastOp'.in) # engine.context
                 THEN 1 ELSE 0)]_vars

C9_Witness ==
    /\ lastOp.op = "call"
    /\ gui
    /\ engine.running
    /\ lastOp.in.res.err = "none"
    /\ engine.context = lastOp.in.res.ctx
    /\ Count(lastOp.log, "change_context") = 1
    /\ NormalMenu(mainMenu)
    /\ ~Placeholder(mainMenu)

RefreshRaised(log) ==
    \E i \in 1..Len(log) :
        \/ /\ log[i].ev \in {"context_from_path", "context_from_entity_dictionary"}
           /\ log[i].info \notin {"none", "TankError"}
        \/ log[i].ev = "change_context" /\ log[i].info # "ok"

\* C11: a call of a scene entry point whose original returns gives the
\* caller the original's result and raises nothing, whatever the refresh
\* does; an exception raised inside the refresh ends in exactly one error
\* dialog, and without one no dialog is shown.
C11_RefreshErrorsCaught ==
    [][(lastOp'.op = "call" /\ lastOp'.name # SCENE_QUIT_EVENT_NAME
          /\ ~lastOp'.in.raises) =>
         /\ lastOp'.exc = "none"
         /\ lastOp'.ret = lastOp'.name
         /\ Count(lastOp'.log, "show_error") =
                (IF RefreshRaised(lastOp'.log) THEN 1 ELSE 0)]_vars

C11_Witness ==
    /\ lastOp.op = "call"
    /\ lastOp.name = "load_project"
    /\ engine.running
    /\ lastOp.in.cc = "TankError"
    /\ lastOp.log[Len(lastOp.log)] = Entry("show_error", 0, "TankError")
    /\ lastOp.exc = "none"
    /\ lastOp.ret = "load_project"

----------------------------------------------------------------------------
(* The claims about the UI pump (SpecPump) *)

\* the pumps pending on the host's idle queue
Pending(q) == {q[i] : i \in 1..Len(q)}

\* a pump that saw the application shutting down
Terminated(ps, pump) == ps[pump].own_helper = "None"

\* C12: an invocation of process_events that finds the toolkit application
\* not shutting down schedules itself exactly once more, with or without a
\* visible window; one that finds it shutting down schedules nothing, and a
\* pump that has seen the shutdown is never pending again.
C12_PumpRearms ==
    [][/\ lastOp'.op = "idle_tick" =>
            LET pump == lastOp'.w
            IN IF ~closingDown(S)
               THEN /\ CountOf(lastOp'.log, "add_to_event_loop_single", pump) = 1
                    /\ idle' = Append(Tail(idle), pump)
               ELSE /\ ~Has(lastOp'.log, "add_to_event_loop_single")
                    /\ idle' = Tail(idle)
                    /\ Terminated(pumps', pump)
       /\ \A pump \in Pumps : Terminated(pumps', pump) => pump \notin Pending(idle')]_vars

C12_Witness ==
    /\ lastOp.op = "idle_tick"
    /\ ~visible
    /\ qapp = "running"
    /\ lastOp.log = <<Entry("add_to_event_loop_single", 1, "")>>
    /\ idle = <<1>>

\* C13: once a pump has seen the toolkit application shutting down, the
\* class attribute _helper no longer refers to it, so that the next exec_()
\* makes a new pump.
C13_SingletonDropped ==
    \A pump \in Pumps : Terminated(pumps, pump) => helper # pump

\* the pumps that were made and have not seen a shutdown
LivePumps == {pump \in Pumps : pumps[pump].made /\ ~Terminated(pumps, pump)}

\* C14: whatever the order of the exec_() calls (those made while
\* process_events drains the toolkit's events included) and the idle ticks,
\* at most one pump is live and at most one callback is pending on the
\* host's idle queue.
C14_OnePump ==
    /\ Cardinality(LivePumps) <= 1
    /\ Len(idle) <= 1

C14_Witness ==
    /\ lastOp.op = "idle_tick"
    /\ lastOp.in.reenters
    /\ Has(lastOp.log, "processEvents")
    /\ LivePumps = {1}
    /\ helper = 1
    /\ idle = <<1>>

----------------------------------------------------------------------------
(* The claims about the startup commands (SpecStartup) *)

\* the commands a run_at_startup entry asks for: all of its app instance's
\* for an empty name, the named one if the app instance registered it
Requested(e) ==
    IF e.name = ""
    THEN command_dict(e.app_instance)
    ELSE {e.name} \cap command_dict(e.app_instance)

\* the entry names an app instance without commands, or a command its app
\* instance did not register
Unknown(e) == Requested(e) = {}

\* how many entries of the setting ask for command c
Requests(c) ==
    Cardinality({i \in 1..Len(settings.run_at_startup) :
                   c \in Requested(settings.run_at_startup[i])})

Occurrences(q, c) == Cardinality({i \in 1..Len(q) : q[i] = c})

\* the engine start that was just made ran post_app_init
RanPostAppInit(o) == o.op = "start_engine" /\ Has(o.log, "post_app_init")

\* C15: post_app_init hands every command a run_at_startup entry asks for
\* over for deferred execution, once per entry asking for it, and raises
\* nothing.
C15_StartupDispatch ==
    [][RanPostAppInit(lastOp') =>
         /\ lastOp'.exc = "none"
         /\ \A c \in DOMAIN commands :
               Occurrences(deferred', c) = Occurrences(deferred, c) + Requests(c)]_vars

\* C16: an entry of run_at_startup that is unknown (app instance without
\* commands, or command not registered) and is reached logs one warning,
\* defers nothing and raises nothing, and the entry after it is processed;
\* the unknown entries at the head of the setting are all reached.
C16_UnknownSkipped ==
    RanPostAppInit(lastOp) =>
        LET ras == settings.run_at_startup
            log == lastOp.log
        IN \A i \in 1..Len(ras) :
              /\ (\A j \in 1..i : Unknown(ras[j])) =>
                     CountOf(log, "logger_warning", i) = 1
              /\ (Unknown(ras[i]) /\ CountOf(log, "logger_warning", i) >= 1) =>
                     /\ CountOf(log, "logger_warning", i) = 1
                     /\ CountOf(log, "executeDeferred", i) = 0
                     /\ i = Len(ras) => lastOp.exc = "none"
                     /\ i < Len(ras) =>
                            \/ CountOf(log, "logger_warning", i + 1) = 1
                            \/ CountOf(log, "logger_debug", i + 1) >= 1

C16_Witness ==
    /\ RanPostAppInit(lastOp)
    /\ settings.run_at_startup = <<StartupEntry("Z", ""), StartupEntry("B", "nope")>>
    /\ lastOp.log[Len(lastOp.log)] = Entry("logger_warning", 2, "unknown command")
    /\ CountOf(lastOp.log, "logger_warning", 1) = 1
    /\ lastOp.exc = "none"
    /\ engine.running
    /\ deferred = <<>>

----------------------------------------------------------------------------
(* The claims about the host checks of init_engine (SpecHostCheck) *)

\* version v is below major.minor, as version numbers
Below(v, major, minor) ==
    v.major < major \/ (v.major = major /\ v.minor < minor)

\* version v is above major.minor, as version numbers
Above(v, major, minor) ==
    v.major > major \/ (v.major = major /\ v.minor > minor)

\* init_engine went on to the menu name, and to the watcher if one is wanted
Continued(o) ==
    /\ Has(o.log, "menu_name")
    /\ settings.automatic_context_switch => Has(o.log, "stop_watching")

\* C17: init_engine raises its fatal error exactly when the platform is not
\* one of the supported ones or the host's version, as major.minor, is
\* below 3.6; otherwise it goes on to the menu name and the watcher.
C17_FatalExactly ==
    lastOp.op = "start_engine" =>
        IF \/ lastOp.ei.platform \notin SupportedPlatforms
           \/ Below(lastOp.ei.version, 3, 6)
        THEN lastOp.exc = "TankError" /\ ~Continued(lastOp)
        ELSE lastOp.exc = "none" /\ Continued(lastOp)

\* the engine start that was just made found a supported host whose version
\* is above the last tested one
UntestedHost(o) ==
    /\ o.op = "start_engine"
    /\ o.ei.platform \in SupportedPlatforms
    /\ Above(o.ei.version, 5, 0)

\* C18: an initialization on a version above the last tested one logs the
\* warning once; it shows the dialog at most once and only if the
\* environment did not carry the marker, which it carries from then on, so
\* that a session sees the dialog at most once; it does not show it when
\* the major version is below compatibility_dialog_min_version.
C18_DialogOnce ==
    [][/\ UntestedHost(lastOp') =>
            /\ Cardinality({i \in 1..Len(lastOp'.log) :
                   lastOp'.log[i] = Entry("logger_warning", 0, "compatibility")}) = 1
            /\ Count(lastOp'.log, "show_info") <= 1
            /\ lastOp'.ei.version.major < settings.compatibility_dialog_min_version
                  => ~Has(lastOp'.log, "show_info")
       /\ Has(lastOp'.log, "show_info") =>
            /\ UntestedHost(lastOp')
            /\ DIALOG_SHOWN \notin environ
            /\ DIALOG_SHOWN \in environ'
       /\ environ \subseteq environ']_vars

C18_Witness ==
    /\ UntestedHost(lastOp)
    /\ gui
    /\ lastOp.ei.version.major >= settings.compatibility_dialog_min_version
    /\ DIALOG_SHOWN \in environ
    /\ ~Has(lastOp.log, "show_info")
    /\ Has(lastOp.log, "logger_warning")
    /\ engine.running

----------------------------------------------------------------------------
(* The claims about context changes (Spec) *)

\* the watchers with a wrapper installed or recorded, in the state st
PatchedWatchers(st) == {w \in Watchers : IsPatched(st, w)}

\* C19: with automatic_context_switch on, no watcher but the running
\* engine's is ever patched in, and its callback carries the engine's
\* current context; init_engine and every context change leave that watcher
\* patched in, and a context change leaves the watcher it found stopped and
\* replaced; and the callback that a scene event runs was given the context
\* the engine has at that moment.
C19_PrevContextCurrent ==
    [][/\ (engine'.running /\ settings.automatic_context_switch) =>
            /\ engine'.watcher # 0
            /\ PatchedWatchers(S') \subseteq {engine'.watcher}
            /\ watchers'[engine'.watcher].cb =
                   EngineCb(engine'.context, engine'.menu_name)
            /\ (\/ lastOp'.op = "start_engine"
                \/ Has(lastOp'.log, "post_context_change")) =>
                   PatchedWatchers(S') = {engine'.watcher}
       /\ (engine.running /\ settings.automatic_context_switch
             /\ Has(lastOp'.log, "post_context_change")) =>
            /\ engine.watcher \notin PatchedWatchers(S')
            /\ ~watchers'[engine.watcher].held
            /\ engine'.watcher # engine.watcher
            /\ CountOf(lastOp'.log, "stop_watching", engine.watcher) >= 1
       /\ (engine.running /\ lastOp'.op = "call"
             /\ Has(lastOp'.log, "refresh_engine")) =>
            watchers[Head(app[lastOp'.name]).watcher].cb.prev_context
                = engine.context]_vars

C19_Witness ==
    /\ lastOp.op = "change_context"
    /\ lastOp.exc = "none"
    /\ settings.automatic_context_switch
    /\ engine.running
    /\ lastOp.ctx = [project |-> "p1", entity |-> "shotA"]
    /\ Has(lastOp.log, "create_shotgun_menu")
    /\ watchers[engine.watcher].cb.prev_context = lastOp.ctx
    /\ PatchedWatchers(S) = {engine.watcher}

\* the log has a create_shotgun_menu after its post_context_change
RebuiltAfterChange(log) ==
    \E i, j \in 1..Len(log) :
        /\ i < j
        /\ log[i].ev = "post_context_change"
        /\ log[j].ev = "create_shotgun_menu"

\* the engine's menu, in the state st, holds the commands of context ctx
MenuFor(st, ctx) == Item(st.engine.menu_name, "commands", ctx) \in st.mainMenu

\* C20: (on a GUI host) a context change that ran post_context_change has
\* rebuilt the menu for the new context when the context changed, whatever
\* automatic_context_switch is, and has not rebuilt it when the context
\* stayed the same.
C20_MenuRebuilt ==
    [][(gui /\ engine.running /\ lastOp'.exc = "none"
          /\ Has(lastOp'.log, "post_context_change")) =>
         IF engine'.context # engine.context
         THEN RebuiltAfterChange(lastOp'.log) /\ MenuFor(S', engine'.context)
         ELSE ~RebuiltAfterChange(lastOp'.log)]_vars

----------------------------------------------------------------------------
(* The claims about the engine's whole life (SpecLife) *)

\* the log hides and releases the dialog number i, once each and in that order
Released(log, i) ==
    /\ CountOf(log, "dialog_hide", i) = 1
    /\ CountOf(log, "dialog_deleteLater", i) = 1
    /\ \E j, k \in 1..Len(log) :
         /\ j < k
         /\ log[j] = Entry("dialog_hide", i, "")
         /\ log[k] = Entry("dialog_deleteLater", i, "")

\* C21: after destroy_engine, in whatever state the engine was, nothing but
\* the root is left of the engine's menu and the callback table is empty,
\* every dialog that show_dialog recorded has been hidden and released, no
\* entry point is patched by the engine's watcher (nor by any other), and
\* destroy_engine raised nothing.
C21_DestroyCleansUp ==
    [][lastOp'.op = "destroy_engine" =>
         /\ lastOp'.exc = "none"
         /\ \A m \in mainMenu' : m.menu = engine.menu_name => m.item = "root"
         /\ menu_callbacks' = {}
         /\ \A i \in 1..engine.qt_dialogs : Released(lastOp'.log, i)
         /\ ~visible'
         /\ engine.watcher # 0 => ~IsPatched(S', engine.watcher)
         /\ \A n \in exposed : app'[n] = <<>>]_vars

C21_Witness ==
    /\ lastOp.op = "destroy_engine"
    /\ gui
    /\ settings.automatic_context_switch
    /\ Released(lastOp.log, MaxDialogs)
    /\ \E i \in 1..Len(lastOp.log) :
         lastOp.log[i].ev = "stop_watching" /\ lastOp.log[i].info = "restored"
    /\ \A n \in exposed : app[n] = <<>>
    /\ ~engine.running

\* C22: with automatic_context_switch off no entry point is ever patched and
\* no watcher exists; starting the engine (init_engine), a context change
\* the framework accepts (post_context_change) and destroy_engine neither
\* create, start nor stop a watcher, and each completes without an error
\* (init_engine once it has accepted the host's platform and version).
C22_SwitchOffInert ==
    [][~settings.automatic_context_switch =>
         /\ \A n \in Names : app'[n] = <<>>
         /\ \A w \in Watchers : watchers'[w] = NoWatcher
         /\ engine'.watcher = 0
         /\ ~Has(lastOp'.log, "stop_watching")
         /\ ~Has(lastOp'.log, "cb_fn")
         /\ (\/ lastOp'.op = "start_engine" /\ Has(lastOp'.log, "menu_name")
             \/ lastOp'.op = "destroy_engine"
             \/ lastOp'.op = "change_context" /\ lastOp'.in.cc = "ok") =>
                lastOp'.exc = "none"]_vars

C22_Witness ==
    /\ ~settings.automatic_context_switch
    /\ lastOp.op = "change_context"
    /\ lastOp.in.cc = "ok"
    /\ Has(lastOp.log, "post_context_change")
    /\ lastOp.exc = "none"
    /\ engine.running
    /\ engine.context = lastOp.ctx
    /\ "quit" \notin exposed
    /\ \A n \in Names : app[n] = <<>>

----------------------------------------------------------------------------
(* The claims about the fallback of the context refresh (Spec) *)

\* the call ran refresh_engine, the path resolution raised tank.TankError and
\* the fallback resolution ended as fb says
FallbackRan(o, fb) ==
    /\ o.op = "call"
    /\ o.in.res.err = "TankError"
    /\ o.in.fb = fb
    /\ Has(o.log, "context_from_entity_dictionary")

\* C23 as claimed: (on a GUI host) whatever exception the fallback
\* resolution raises, the placeholder is created and the context is not
\* changed.
C23_AnyFallbackErrorDisables ==
    [][(gui /\ engine.running
          /\ \E fb \in {"TankError", "KeyError"} : FallbackRan(lastOp', fb)) =>
         /\ Has(lastOp'.log, "create_sgtk_disabled_menu")
         /\ Placeholder(mainMenu')
         /\ engine'.context = engine.context
         /\ ~Has(lastOp'.log, "change_context")]_vars

\* C23 as amended: only tank.TankError of the fallback resolution leads to
\* the disabled state (on a GUI host the placeholder is created, and the
\* error is displayed once); any other exception leaves refresh_engine,
\* ends in one error dialog of on_scene_event_callback, and creates no
\* placeholder and changes no menu.  In both cases the context stays.
C23_OnlyTankErrorDisables ==
    [][engine.running =>
         /\ FallbackRan(lastOp', "TankError") =>
              /\ gui => /\ Count(lastOp'.log, "create_sgtk_disabled_menu") = 1
                        /\ Placeholder(mainMenu')
              /\ Count(lastOp'.log, "display_error") = 1
              /\ ~Has(lastOp'.log, "show_error")
              /\ engine'.context = engine.context
              /\ ~Has(lastOp'.log, "change_context")
         /\ FallbackRan(lastOp', "KeyError") =>
              /\ ~Has(lastOp'.log, "create_sgtk_disabled_menu")
              /\ ~Has(lastOp'.log, "display_error")
              /\ Count(lastOp'.log, "show_error") = 1
              /\ mainMenu' = mainMenu
              /\ menu_callbacks' = menu_callbacks
              /\ engine'.context = engine.context
              /\ ~Has(lastOp'.log, "change_context")
              /\ lastOp'.exc = "none"]_vars

C23_Witness ==
    /\ FallbackRan(lastOp, "KeyError")
    /\ gui
    /\ engine.running
    /\ Count(lastOp.log, "show_error") = 1
    /\ NormalMenu(mainMenu)
    /\ ~Placeholder(mainMenu)

\* the log calls change_context exactly once, and what the framework did
\* with it is cc
ChangedOnce(log, cc) ==
    /\ Count(log, "change_context") = 1
    /\ \E i \in 1..Len(log) : log[i] = Entry("change_context", 0, cc)

\* C24 as claimed: a refresh whose path resolution fails and whose fallback
\* succeeds does not disable the menu: the placeholder is gone, the normal
\* menu is present, and the context becomes the project context if that
\* differs from the engine's and is left alone otherwise.
C24_FallbackRefresh ==
    [][(engine.running /\ FallbackRan(lastOp', "none")) =>
         /\ ~Has(lastOp'.log, "create_sgtk_disabled_menu")
         /\ ~Placeholder(mainMenu')
         /\ NormalMenu(mainMenu')
         /\ IF ProjectContext(engine.context) # engine.context
            THEN /\ ChangedOnce(lastOp'.log, lastOp'.in.cc)
                 /\ lastOp'.in.cc = "ok" =>
                        engine'.context = ProjectContext(engine.context)
            ELSE /\ ~Has(lastOp'.log, "change_context")
                 /\ engine'.context = engine.context]_vars

\* C24 as amended: the same, the normal menu being present when the host is
\* a GUI application (in batch mode the engine builds no menu).
C24_FallbackRefreshGui ==
    [][(engine.running /\ FallbackRan(lastOp', "none")) =>
         /\ ~Has(lastOp'.log, "create_sgtk_disabled_menu")
         /\ ~Has(lastOp'.log, "display_error")
         /\ Count(lastOp'.log, "remove_sgtk_disabled_menu") = 1
         /\ ~Placeholder(mainMenu')
         /\ gui => NormalMenu(mainMenu')
         /\ IF ProjectContext(engine.context) # engine.context
            THEN /\ ChangedOnce(lastOp'.log, lastOp'.in.cc)
                 /\ engine'.context =
                        (IF lastOp'.in.cc = "ok"
                         THEN ProjectContext(engine.context)
                         ELSE engine.context)
            ELSE /\ ~Has(lastOp'.log, "change_context")
                 /\ engine'.context = engine.context]_vars

C24_Witness ==
    /\ FallbackRan(lastOp, "none")
    /\ gui
    /\ engine.running
    /\ ChangedOnce(lastOp.log, "ok")
    /\ engine.context.entity = "none"
    /\ MenuFor(S, engine.context)
    /\ ~Placeholder(mainMenu)

----------------------------------------------------------------------------
(* The claim about the creation of the UI pump (SpecPump) *)

\* no pump object has been made and no callback waits on the idle queue
NoPumpYet == helper = 0 /\ idle = <<>> /\ \A p \in Pumps : ~pumps[p].made

----------------------------------------------------------------------------
(* More claims about one SceneEventWatcher (SpecWatcher) *)

\* C26: a call of the patched quit runs the watcher's exiting callback,
\* which restores every entry point the watcher patched, quit included, and
\* only then the host's original quit; nothing else happens in between, and
\* the scene-event callback is not invoked.
C26_QuitRestoresFirst ==
    [][(lastOp'.op = "call" /\ lastOp'.name = SCENE_QUIT_EVENT_NAME
          /\ app[SCENE_QUIT_EVENT_NAME] # <<>>) =>
         LET w == Head(app[SCENE_QUIT_EVENT_NAME]).watcher
         IN /\ lastOp'.log =
                  <<Entry("pre_callback", w, SCENE_QUIT_EVENT_NAME),
                    Entry("stop_watching", w, "restored"),
                    Entry("original", 0, SCENE_QUIT_EVENT_NAME)>>
            /\ \A n \in exposed : app'[n] = <<>>
            /\ watchers'[w].wrapped_fns = EmptyTable
            /\ ~Has(lastOp'.log, "cb_fn")
            /\ fired' = fired]_vars

C26_Witness ==
    /\ lastOp.op = "call"
    /\ lastOp.name = SCENE_QUIT_EVENT_NAME
    /\ Len(lastOp.log) = 3
    /\ lastOp.log[2] = Entry("stop_watching", 1, "restored")
    /\ lastOp.log[3].ev = "original"
    /\ ~alive
    /\ \A n \in exposed : app[n] = <<>>

\* C27: a patched scene entry point is transparent: called with arguments it
\* hands them to the host's original (which opens the scene they name) and
\* returns the original's result; when the original raises, its exception
\* reaches the caller, no callback runs, and nothing is unpatched: a
\* run_once watcher stays patched and has not fired.
C27_WrapperTransparent ==
    [][(lastOp'.op = "call" /\ lastOp'.name # SCENE_QUIT_EVENT_NAME
          /\ app[lastOp'.name] # <<>>) =>
         IF lastOp'.in.raises
         THEN /\ lastOp'.exc = "HostError"
              /\ lastOp'.ret = "none"
              /\ lastOp'.log = <<Entry("original", 0, lastOp'.name)>>
              /\ app' = app
              /\ watchers' = watchers
              /\ fired' = fired
              /\ scene' = scene
         ELSE /\ lastOp'.exc = "none"
              /\ lastOp'.ret = lastOp'.name
              /\ lastOp'.log[1] = Entry("original", 0, lastOp'.name)
              /\ scene' = lastOp'.in.scene]_vars

C27_Witness ==
    /\ lastOp.op = "call"
    /\ lastOp.name = "load_project"
    /\ lastOp.in.raises
    /\ lastOp.exc = "HostError"
    /\ watchers[1].run_once
    /\ watchers[1].held
    /\ 1 \notin fired
    /\ app["load_project"] = WrapperOf(1, "load_project")

----------------------------------------------------------------------------
(* The claim about two watchers (SpecTwo) *)

\* watcher w has been made and is stopped: it records no wrapper
Stopped(w) == watchers[w].held /\ watchers[w].wrapped_fns = EmptyTable

\* C28: when two watchers have been started, the second while the first was
\* patched in, and both have been stopped, in either order, every entry
\* point holds the host's original and no wrapper can be invoked.
C28_BothStoppedAllOriginal ==
    (lastOp.op = "stop_watching" /\ Stopped(1) /\ Stopped(2)) =>
        \A n \in exposed : app[n] = <<>>

----------------------------------------------------------------------------
(* The claim about batch mode (SpecLife) *)

\* C29: on a host that is not a GUI application no step of the engine's
\* life (start, context change, scene event with its refresh, show_dialog,
\* destroy) changes the host's main menu or the menu-callback table, no
\* QApplication is made and no pump is created or scheduled, and show_dialog
\* logs an error, returns nothing and records and shows no dialog.
C29_BatchModeInert ==
    [][~gui =>
         /\ mainMenu' = mainMenu
         /\ menu_callbacks' = menu_callbacks
         /\ helper' = 0
         /\ idle' = <<>>
         /\ \A p \in Pumps : ~pumps'[p].made
         /\ qapp' = "none"
         /\ ~Has(lastOp'.log, "add_to_event_loop_single")
         /\ engine'.qt_dialogs = 0
         /\ ~visible'
         /\ lastOp'.op = "show_dialog" =>
              /\ lastOp'.ret = "none"
              /\ lastOp'.exc = "none"
              /\ lastOp'.log = <<Entry("logger_error", 0, "no UI")>>
              /\ engine' = engine]_vars

C29_Witness ==
    /\ ~gui
    /\ lastOp.op = "show_dialog"
    /\ lastOp.ret = "none"
    /\ Has(lastOp.log, "logger_error")
    /\ engine.running
    /\ engine.qt_dialogs = 0
    /\ settings.automatic_context_switch
    /\ mainMenu = {}
    /\ helper = 0

====
